---- MODULE Spec2Model ----
(***************************************************************************)
(* The task-list state machine of the TodoApp component                    *)
(* (src/src/app/todo-app/todo-app.ts): the signal todoList, the draft      *)
(* newTask, the blob kept in localStorage under 'todoItems', and the       *)
(* handlers that the template binds to user events.                        *)
(*                                                                         *)
(* Texts are sequences of one-character strings.  Dates are integers, the  *)
(* milliseconds since the epoch that Date.getTime() returns.               *)
(***************************************************************************)
EXTENDS Integers, Sequences, FiniteSets, TLC

\* ------------------------------------------------------------------ bounds
\* At most MaxTasks records are held at once (addTask is not offered beyond).
MaxTasks == 2
\* The wall clock is read in the first 1 + MaxMs milliseconds after the
\* epoch, or when the next second begins.
MaxMs == 1
\* The storage holds the JSON of at most Quota records (where it is limited).
Quota == 1

\* ------------------------------------------------------- input alphabets
\* What the user types into the text box bound to newTask.todoItem.
Texts == { <<>>, <<" ">>, <<"a">>, <<" ", "A", " ">> }
\* The <option> values of the status <select> bound to newTask.status.
Statuses == { "Pending", "In Progress", "Completed" }

VARIABLES
  todoList,      \* the value of the signal todoList: a sequence of records
  newTask,       \* the draft record bound to the form
  localStorage,  \* the item stored under localKeyName: NoItem or a JSON blob
  clock,         \* the last reading of the wall clock (new Date())
  newTaskAlias,  \* which stored record newTask is the same object as (0: none)
  filtered,      \* the outcome of the last getFilteredTasks() call
  lastOp         \* the handler that ran last, and how it ended

vars == <<todoList, newTask, newTaskAlias, localStorage, clock, filtered, lastOp>>

\* ------------------------------------------------------------ Date model
MsPerSecond == 1000
MsPerDay == 24 * 60 * 60 * MsPerSecond

\* Date.prototype.getDay(): the epoch (1 Jan 1970) was a Thursday (4).
GetDay(t) == (4 + (t \div MsPerDay)) % 7
\* Date.prototype.getMilliseconds()
GetMilliseconds(t) == t % MsPerSecond

\* Variant: the instant written to the second, "1970-01-DDTHH:MM:SSZ".
ToISOStringSeconds(t) ==
  [ year   |-> 1970,
    month  |-> 1,
    day    |-> 1 + (t \div MsPerDay),
    hour   |-> (t % MsPerDay) \div (60 * 60 * MsPerSecond),
    minute |-> (t % (60 * 60 * MsPerSecond)) \div (60 * MsPerSecond),
    second |-> (t % (60 * MsPerSecond)) \div MsPerSecond,
    ms     |-> 0 ]

\* Date.prototype.toJSON() = toISOString(): the calendar fields of the
\* instant, "1970-01-DDTHH:MM:SS.mmmZ".  The model's clock stays within
\* January 1970, so the day of the month is 1 + the day number.
ToISOString(t) ==
  [ year   |-> 1970,
    month  |-> 1,
    day    |-> 1 + (t \div MsPerDay),
    hour   |-> (t % MsPerDay) \div (60 * 60 * MsPerSecond),
    minute |-> (t % (60 * 60 * MsPerSecond)) \div (60 * MsPerSecond),
    second |-> (t % (60 * MsPerSecond)) \div MsPerSecond,
    ms     |-> t % MsPerSecond ]

\* new Date(isoString): the instant the calendar fields denote.
DateFromISO(s) ==
  (s.day - 1) * MsPerDay + s.hour * 60 * 60 * MsPerSecond
    + s.minute * 60 * MsPerSecond + s.second * MsPerSecond + s.ms

\* ----------------------------------------------------------- text model
IsSpace(c) == c = " "

RECURSIVE TrimStart(_)
TrimStart(s) ==
  IF s = <<>> THEN <<>>
  ELSE IF IsSpace(Head(s)) THEN TrimStart(Tail(s)) ELSE s

RECURSIVE TrimEnd(_)
TrimEnd(s) ==
  IF s = <<>> THEN <<>>
  ELSE IF IsSpace(s[Len(s)]) THEN TrimEnd(SubSeq(s, 1, Len(s) - 1)) ELSE s

\* Variant: the text is tested as typed, without trim().
TrimNone(s) == s

\* String.prototype.trim()
Trim(s) == TrimEnd(TrimStart(s))

\* ------------------------------------------------------------- the model
\* The handlers are modelled as the public methods they are: each can be
\* called in every state, which covers what the template's buttons offer.
\* Variant: the constructor of the first version of the class, status 'pending'.
TodoItemModelLowercase(t) ==
  [ todoItemId |-> 0, todoItem |-> <<>>, createdDate |-> t, status |-> "pending" ]

\* new TodoItemModel(), constructed when the clock reads t.
TodoItemModel(t) ==
  [ todoItemId |-> 0, todoItem |-> <<>>, createdDate |-> t, status |-> "Pending" ]

\* localStorage.getItem(key): null while nothing was stored, else the string.
\* holds tells what the string is: the JSON of an array, as the component
\* writes it, or something another writer of the same origin has put there.
NoItem == [ present |-> FALSE, json |-> <<>>, holds |-> "array" ]
Item(json) == [ present |-> TRUE, json |-> json, holds |-> "array" ]

\* Strings the component has not written: text that is not JSON ('{'), and
\* the JSON of a value that is not an array ('{}').
ForeignBlobs == { "not JSON", "not an array" }
ForeignItem(kind) == [ present |-> TRUE, json |-> <<>>, holds |-> kind ]

\* How ngOnInit ends on the item it reads: JSON.parse throws a SyntaxError
\* on text that is not JSON, parseData.map is not a function (TypeError) on
\* a value that is not an array; nothing catches either.
NgOnInitOutcome(item) ==
  IF ~item.present THEN "returned"
  ELSE IF item.holds = "not JSON" THEN "SyntaxError"
  ELSE IF item.holds = "not an array" THEN "TypeError"
  ELSE "returned"

\* JSON.stringify(list): every record with its Date written by toJSON().
JsonStringify(list) ==
  [ i \in 1..Len(list) |->
      [ todoItemId  |-> list[i].todoItemId,
        todoItem    |-> list[i].todoItem,
        createdDate |-> ToISOString(list[i].createdDate),
        status      |-> list[i].status ] ]

\* ngOnInit's parseData.map(...): every record of the parsed blob with its
\* createdDate string turned back into a Date.
TasksWithDates(blob) ==
  [ i \in 1..Len(blob) |->
      [ todoItemId  |-> blob[i].todoItemId,
        todoItem    |-> blob[i].todoItem,
        createdDate |-> DateFromISO(blob[i].createdDate),
        status      |-> blob[i].status ] ]

\* Variant: the id without the 1 added, length + getDay() + getMilliseconds().
GenerateIdNoPlusOne(draft, list, t) ==
  [ draft EXCEPT !.todoItemId = Len(list) + GetDay(t) + GetMilliseconds(t),
                 !.createdDate = t ]

\* generateId(): the draft with its id and creation date set from the
\* clock reading t and the current length of the list.
GenerateId(draft, list, t) ==
  [ draft EXCEPT !.todoItemId = Len(list) + 1 + GetDay(t) + GetMilliseconds(t),
                 !.createdDate = t ]

\* Variant: the new record is put in front, [{ ...this.newTask }, ...list].
AddToListPrepend(list, draft) == <<draft>> \o list

\* addTask's updater: [...list, { ...this.newTask }]
AddToList(list, draft) == Append(list, draft)

\* Variant: the status is not carried over into the form.
CopyOfTaskResetStatus(data) == [ data EXCEPT !.status = "Pending" ]

\* editTask's object literal { ...data, createdDate: new Date(data.createdDate) }
CopyOfTask(data) ==
  [ todoItemId  |-> data.todoItemId,
    todoItem    |-> data.todoItem,
    createdDate |-> data.createdDate,
    status      |-> data.status ]

\* Variant: this.newTask = data, the draft is the stored record itself.
EditAliasShared(i) == i

\* The stored record (its index in todoList) that is the same object as
\* the draft after editTask(todoList[i]): none (0), the literal is a new object.
EditAlias(i) == 0

\* Variant: the edited record is removed and pushed at the end.
UpdateInListMoveToEnd(list, draft) ==
  Append(SelectSeq(list, LAMBDA item : item.todoItemId # draft.todoItemId), draft)

\* Variant: a draft that matches no record is pushed as a new one.
UpdateInListUpsert(list, draft) ==
  IF \E i \in 1..Len(list) : list[i].todoItemId = draft.todoItemId
    THEN [ i \in 1..Len(list) |->
             IF list[i].todoItemId = draft.todoItemId THEN draft ELSE list[i] ]
    ELSE Append(list, draft)

\* updateTask's updater: list.map(item => item.id === draft.id ? {...draft} : item)
UpdateInList(list, draft) ==
  [ i \in 1..Len(list) |->
      IF list[i].todoItemId = draft.todoItemId THEN draft ELSE list[i] ]

\* Variant: list.splice(list.findIndex(...), 1), which for an id that is
\* not found (index -1) removes the last record.
DeleteFromListSplice(list, todoItemId) ==
  LET found == { i \in 1..Len(list) : list[i].todoItemId = todoItemId }
      at == IF found = {} THEN Len(list)
            ELSE CHOOSE i \in found : \A j \in found : i <= j
  IN  [ i \in 1..(IF list = <<>> THEN 0 ELSE Len(list) - 1) |->
          IF i < at THEN list[i] ELSE list[i + 1] ]

\* deleteTask's updater: list.filter(item => item.todoItemId !== todoItemId)
DeleteFromList(list, todoItemId) ==
  SelectSeq(list, LAMBDA item : item.todoItemId # todoItemId)

\* toggleComplete's replacement for the matching item
Toggled(item) ==
  [ item EXCEPT !.status = IF item.status = "Completed" THEN "Pending" ELSE "Completed" ]

\* toggleComplete's updater
ToggleInList(list, todoItemId) ==
  [ i \in 1..Len(list) |->
      IF list[i].todoItemId = todoItemId THEN Toggled(list[i]) ELSE list[i] ]

\* Variant: only the Pending records are kept.
ClearCompletedKeepPending(list) ==
  SelectSeq(list, LAMBDA item : item.status = "Pending")

\* clearCompletedTasks's updater: list.filter(item => item.status !== 'Completed')
ClearCompleted(list) ==
  SelectSeq(list, LAMBDA item : item.status # "Completed")

\* getCompletedCount() and getPendingCount()
GetCompletedCount(list) ==
  Len(SelectSeq(list, LAMBDA item : item.status = "Completed"))
\* Variant: every task that is not Completed is counted as pending.
GetPendingCountNotCompleted(list) ==
  Len(SelectSeq(list, LAMBDA item : item.status # "Completed"))
GetPendingCount(list) ==
  Len(SelectSeq(list, LAMBDA item : item.status = "Pending"))

\* ------------------------------------------------- object identity of the draft
\* newTaskAlias is the index of the stored record that is the very object
\* newTask refers to, 0 when newTask is an object of its own.  A write to
\* a field of newTask is a write to that record as well.
WriteThrough(list, alias, draft) ==
  IF alias = 0 THEN list ELSE [ list EXCEPT ![alias] = draft ]

\* Array.prototype.filter keeps the objects it keeps: the index of the
\* aliased record among the kept ones, 0 when it was dropped.
\* kept is the set of the indices of the records the filter keeps.
AliasAfterFilter(kept, alias) ==
  IF alias = 0 \/ alias \notin kept THEN 0
  ELSE Cardinality({ j \in kept : j <= alias })

\* Array.prototype.map with a replacing literal: a replaced record is a new object.
AliasAfterReplace(list, alias, todoItemId) ==
  IF alias # 0 /\ list[alias].todoItemId = todoItemId THEN 0 ELSE alias

\* --------------------------------------------------------- getFilteredTasks
\* searchText, filterStatus and sortOrder are signals, and getFilteredTasks
\* reads the fields without calling them: each expression this.<field>
\* evaluates to the signal, a function, not to the string it holds.
JsString(s) == [ typeof |-> "string", value |-> s ]
SignalOf(v) == [ typeof |-> "function", value |-> v ]

\* x === y for a string y
StrictEquals(x, y) == x.typeof = y.typeof /\ x.value = y.value

\* String.prototype.toLowerCase()
LowerChar(c) == IF c = "A" THEN "a" ELSE IF c = "B" THEN "b" ELSE c
ToLowerCase(s) == [ i \in 1..Len(s) |-> LowerChar(s[i]) ]

\* String.prototype.includes(needle)
Includes(s, needle) ==
  \E k \in 0..(Len(s) - Len(needle)) : SubSeq(s, k + 1, k + Len(needle)) = needle

\* The comparator handed to sort: dateB - dateA for 'newest', else dateA - dateB.
Compare(a, b, sortOrderExpr) ==
  IF StrictEquals(sortOrderExpr, JsString("newest"))
    THEN b.createdDate - a.createdDate
    ELSE a.createdDate - b.createdDate

\* Array.prototype.sort is stable: x goes after every element it does not precede.
RECURSIVE InsertSorted(_, _, _)
InsertSorted(sorted, x, sortOrderExpr) ==
  IF sorted = <<>> THEN <<x>>
  ELSE IF Compare(x, sorted[Len(sorted)], sortOrderExpr) >= 0
         THEN Append(sorted, x)
         ELSE Append(InsertSorted(SubSeq(sorted, 1, Len(sorted) - 1), x, sortOrderExpr),
                     sorted[Len(sorted)])

RECURSIVE SortTasks(_, _)
SortTasks(tasks, sortOrderExpr) ==
  IF tasks = <<>> THEN <<>>
  ELSE InsertSorted(SortTasks(SubSeq(tasks, 1, Len(tasks) - 1), sortOrderExpr),
                    tasks[Len(tasks)], sortOrderExpr)

\* getFilteredTasks() with the three signals holding st, fs and so: what the
\* call returns, or the TypeError it throws where .trim is not a function.
GetFilteredTasks(list, st, fs, so) ==
  LET searchTextExpr   == SignalOf(st)
      filterStatusExpr == SignalOf(fs)
      sortOrderExpr    == SignalOf(so)
      byStatus ==
        IF ~StrictEquals(filterStatusExpr, JsString("All"))
          THEN SelectSeq(list, LAMBDA item :
                 StrictEquals(JsString(item.status), filterStatusExpr))
          ELSE list
  IN  IF searchTextExpr.typeof # "string"
        THEN [ outcome |-> "TypeError", tasks |-> <<>> ]
        ELSE
          LET bySearch ==
                IF Trim(searchTextExpr.value) # <<>>
                  THEN SelectSeq(byStatus, LAMBDA item :
                         Includes(ToLowerCase(item.todoItem),
                                  ToLowerCase(searchTextExpr.value)))
                  ELSE byStatus
          IN  [ outcome |-> "returned", tasks |-> SortTasks(bySearch, sortOrderExpr) ]

\* What the user may have put into the three signals through the page.
SearchTexts == { <<>>, <<" ">>, <<"a">> }
FilterStatuses == { "All" } \cup Statuses
SortOrders == { "newest", "oldest" }

Init ==
  /\ todoList = <<>>
  /\ newTask = TodoItemModel(0)
  /\ newTaskAlias = 0
  /\ localStorage = NoItem
  /\ clock = 0
  /\ filtered = [ outcome |-> "none", tasks |-> <<>> ]
  /\ lastOp = "constructor"

\* The instants at which the wall clock is read.
Instants == (0..MaxMs) \cup { MsPerSecond }
\* A reading of the wall clock: it never runs backwards.
Readings(from) == { t \in Instants : t >= from }

\* The user types s into the text box ([(ngModel)]="newTask.todoItem").
SetText(s) ==
  /\ newTask' = [ newTask EXCEPT !.todoItem = s ]
  /\ todoList' = WriteThrough(todoList, newTaskAlias, newTask')
  /\ lastOp' = "setText"
  /\ UNCHANGED <<newTaskAlias, localStorage, clock, filtered>>

\* The user picks a status in the form ([(ngModel)]="newTask.status").
SetStatus(st) ==
  /\ newTask' = [ newTask EXCEPT !.status = st ]
  /\ todoList' = WriteThrough(todoList, newTaskAlias, newTask')
  /\ lastOp' = "setStatus"
  /\ UNCHANGED <<newTaskAlias, localStorage, clock, filtered>>

\* Variant: addTask that resets the form before it writes to the storage.
AddTaskResetFirst(ok) ==
  IF Trim(newTask.todoItem) = <<>>
    THEN /\ lastOp' = "addTask:blank"
         /\ UNCHANGED <<todoList, newTask, newTaskAlias, localStorage, clock, filtered>>
    ELSE /\ Len(todoList) < MaxTasks
         /\ \E t1 \in Readings(clock) :
              LET draft == GenerateId(newTask, todoList, t1)
              IN  /\ todoList' = AddToList(WriteThrough(todoList, newTaskAlias, draft), draft)
                  /\ \E t2 \in Readings(t1) :
                       /\ newTask' = TodoItemModel(t2)
                       /\ clock' = t2
                  /\ newTaskAlias' = 0
                  /\ IF ok
                       THEN /\ localStorage' = Item(JsonStringify(todoList'))
                            /\ lastOp' = "addTask"
                       ELSE /\ lastOp' = "addTask:throw"
                            /\ UNCHANGED localStorage
         /\ UNCHANGED filtered

\* addTask() past its validation, when new Date() reads t1 in generateId
\* and t2 in the constructor that resets the form.
AddTaskAt(ok, t1, t2) ==
  LET draft == GenerateId(newTask, todoList, t1)
  IN  /\ todoList' = AddToList(WriteThrough(todoList, newTaskAlias, draft), draft)
      /\ IF ok
           THEN /\ localStorage' = Item(JsonStringify(todoList'))
                /\ newTask' = TodoItemModel(t2)
                /\ clock' = t2
                /\ newTaskAlias' = 0
                /\ lastOp' = "addTask"
           ELSE /\ newTask' = draft
                /\ clock' = t1
                /\ lastOp' = "addTask:throw"
                /\ UNCHANGED <<localStorage, newTaskAlias>>
      /\ UNCHANGED filtered

\* addTask(); ok tells whether localStorage.setItem succeeds or throws.
AddTask(ok) ==
  IF Trim(newTask.todoItem) = <<>>
    THEN /\ lastOp' = "addTask:blank"
         /\ UNCHANGED <<todoList, newTask, newTaskAlias, localStorage, clock, filtered>>
    ELSE /\ Len(todoList) < MaxTasks
         /\ \E t1 \in Readings(clock) : \E t2 \in Readings(t1) : AddTaskAt(ok, t1, t2)

\* editTask(todoList[i]): the template hands over a record of the list.
EditTask(i) ==
  /\ i \in 1..Len(todoList)
  /\ newTask' = CopyOfTask(todoList[i])
  /\ newTaskAlias' = EditAlias(i)
  /\ lastOp' = "editTask"
  /\ UNCHANGED <<todoList, localStorage, clock, filtered>>

\* Variant: updateTask without its validation of the text.
UpdateTaskNoValidation(ok) ==
  /\ todoList' = UpdateInList(todoList, newTask)
  /\ IF ok
       THEN /\ localStorage' = Item(JsonStringify(todoList'))
            /\ \E t \in Readings(clock) :
                 /\ newTask' = TodoItemModel(t)
                 /\ clock' = t
            /\ newTaskAlias' = 0
            /\ lastOp' = "updateTask"
       ELSE /\ newTaskAlias' = AliasAfterReplace(todoList, newTaskAlias, newTask.todoItemId)
            /\ lastOp' = "updateTask:throw"
            /\ UNCHANGED <<newTask, localStorage, clock>>
  /\ UNCHANGED filtered

\* Variant: updateTask that puts the old list back when the write fails.
UpdateTaskRollback(ok) ==
  IF Trim(newTask.todoItem) = <<>>
    THEN /\ lastOp' = "updateTask:blank"
         /\ UNCHANGED <<todoList, newTask, newTaskAlias, localStorage, clock, filtered>>
    ELSE /\ IF ok
              THEN /\ todoList' = UpdateInList(todoList, newTask)
                   /\ localStorage' = Item(JsonStringify(todoList'))
                   /\ \E t \in Readings(clock) :
                        /\ newTask' = TodoItemModel(t)
                        /\ clock' = t
                   /\ newTaskAlias' = 0
                   /\ lastOp' = "updateTask"
              ELSE /\ lastOp' = "updateTask:throw"
                   /\ UNCHANGED <<todoList, newTask, newTaskAlias, localStorage, clock>>
         /\ UNCHANGED filtered

\* updateTask()
UpdateTask(ok) ==
  IF Trim(newTask.todoItem) = <<>>
    THEN /\ lastOp' = "updateTask:blank"
         /\ UNCHANGED <<todoList, newTask, newTaskAlias, localStorage, clock, filtered>>
    ELSE /\ todoList' = UpdateInList(todoList, newTask)
         /\ IF ok
              THEN /\ localStorage' = Item(JsonStringify(todoList'))
                   /\ \E t \in Readings(clock) :
                        /\ newTask' = TodoItemModel(t)
                        /\ clock' = t
                   /\ newTaskAlias' = 0
                   /\ lastOp' = "updateTask"
              ELSE /\ newTaskAlias' = AliasAfterReplace(todoList, newTaskAlias, newTask.todoItemId)
                   /\ lastOp' = "updateTask:throw"
                   /\ UNCHANGED <<newTask, localStorage, clock>>
         /\ UNCHANGED filtered

\* onCancelEdit()
OnCancelEdit ==
  /\ \E t \in Readings(clock) :
       /\ newTask' = TodoItemModel(t)
       /\ clock' = t
  /\ newTaskAlias' = 0
  /\ lastOp' = "onCancelEdit"
  /\ UNCHANGED <<todoList, localStorage, filtered>>

\* Variant: deleteTask without the reset of the form it ends with.
DeleteTaskNoReset(todoItemId, yes, ok) ==
  IF ~yes
    THEN /\ lastOp' = "deleteTask:declined"
         /\ UNCHANGED <<todoList, newTask, newTaskAlias, localStorage, clock, filtered>>
    ELSE /\ todoList' = DeleteFromList(todoList, todoItemId)
         /\ localStorage' = IF ok THEN Item(JsonStringify(todoList')) ELSE localStorage
         /\ lastOp' = IF ok THEN "deleteTask" ELSE "deleteTask:throw"
         /\ newTaskAlias' = AliasAfterFilter(
                { j \in 1..Len(todoList) : todoList[j].todoItemId # todoItemId },
                newTaskAlias)
         /\ UNCHANGED <<newTask, clock, filtered>>

\* Variant: deleteTask that asks but deletes whatever the answer is.
DeleteTaskNoConfirm(todoItemId, yes, ok) ==
  /\ todoList' = DeleteFromList(todoList, todoItemId)
  /\ localStorage' = IF ok THEN Item(JsonStringify(todoList')) ELSE localStorage
  /\ lastOp' = IF ~ok THEN "deleteTask:throw"
               ELSE IF yes THEN "deleteTask" ELSE "deleteTask:declined"
  /\ IF ok /\ newTask.todoItemId = todoItemId
       THEN /\ \E t \in Readings(clock) :
                 /\ newTask' = TodoItemModel(t)
                 /\ clock' = t
            /\ newTaskAlias' = 0
       ELSE /\ newTaskAlias' = AliasAfterFilter(
                   { j \in 1..Len(todoList) : todoList[j].todoItemId # todoItemId },
                   newTaskAlias)
            /\ UNCHANGED <<newTask, clock>>
  /\ UNCHANGED filtered

\* deleteTask(todoItemId); yes is the answer confirm() returns.
DeleteTask(todoItemId, yes, ok) ==
  IF ~yes
    THEN /\ lastOp' = "deleteTask:declined"
         /\ UNCHANGED <<todoList, newTask, newTaskAlias, localStorage, clock, filtered>>
    ELSE /\ todoList' = DeleteFromList(todoList, todoItemId)
         /\ IF ~ok
              THEN /\ newTaskAlias' = AliasAfterFilter({ j \in 1..Len(todoList) : todoList[j].todoItemId # todoItemId },
                                        newTaskAlias)
                   /\ lastOp' = "deleteTask:throw"
                   /\ UNCHANGED <<newTask, localStorage, clock>>
              ELSE /\ localStorage' = Item(JsonStringify(todoList'))
                   /\ lastOp' = "deleteTask"
                   /\ IF newTask.todoItemId = todoItemId
                        THEN /\ \E t \in Readings(clock) :
                                  /\ newTask' = TodoItemModel(t)
                                  /\ clock' = t
                             /\ newTaskAlias' = 0
                        ELSE /\ newTaskAlias' = AliasAfterFilter({ j \in 1..Len(todoList) : todoList[j].todoItemId # todoItemId },
                                                  newTaskAlias)
                             /\ UNCHANGED <<newTask, clock>>
         /\ UNCHANGED filtered

\* Variant: toggleComplete without its saveToLocalStorage() call.
ToggleCompleteNoSave(todoItemId, ok) ==
  /\ todoList' = ToggleInList(todoList, todoItemId)
  /\ newTaskAlias' = AliasAfterReplace(todoList, newTaskAlias, todoItemId)
  /\ lastOp' = "toggleComplete"
  /\ UNCHANGED <<newTask, localStorage, clock, filtered>>

\* Variant: toggleComplete that first cancels the edit of the toggled task
\* (if (this.newTask.todoItemId === task.todoItemId) this.newTask = new ...).
ToggleCompleteCancelsEdit(todoItemId, ok) ==
  /\ todoList' = ToggleInList(todoList, todoItemId)
  /\ IF newTask.todoItemId = todoItemId
       THEN /\ \E t \in Readings(clock) :
                 /\ newTask' = TodoItemModel(t)
                 /\ clock' = t
            /\ newTaskAlias' = 0
       ELSE /\ newTaskAlias' = AliasAfterReplace(todoList, newTaskAlias, todoItemId)
            /\ UNCHANGED <<newTask, clock>>
  /\ IF ok
       THEN /\ localStorage' = Item(JsonStringify(todoList'))
            /\ lastOp' = "toggleComplete"
       ELSE /\ lastOp' = "toggleComplete:throw"
            /\ UNCHANGED localStorage
  /\ UNCHANGED filtered

\* toggleComplete(task), for a task whose todoItemId is todoItemId.
ToggleComplete(todoItemId, ok) ==
  /\ todoList' = ToggleInList(todoList, todoItemId)
  /\ newTaskAlias' = AliasAfterReplace(todoList, newTaskAlias, todoItemId)
  /\ IF ok
       THEN /\ localStorage' = Item(JsonStringify(todoList'))
            /\ lastOp' = "toggleComplete"
       ELSE /\ lastOp' = "toggleComplete:throw"
            /\ UNCHANGED localStorage
  /\ UNCHANGED <<newTask, clock, filtered>>

\* Variant: clearCompletedTasks that resets the form when the task it edits
\* is among the removed ones.
ClearCompletedTasksResetsDraft(yes, ok) ==
  IF ~yes
    THEN /\ lastOp' = "clearCompletedTasks:declined"
         /\ UNCHANGED <<todoList, newTask, newTaskAlias, localStorage, clock, filtered>>
    ELSE /\ todoList' = ClearCompleted(todoList)
         /\ IF ok
              THEN /\ localStorage' = Item(JsonStringify(todoList'))
                   /\ lastOp' = "clearCompletedTasks"
              ELSE /\ lastOp' = "clearCompletedTasks:throw"
                   /\ UNCHANGED localStorage
         /\ IF ok /\ \E j \in 1..Len(todoList) :
                       /\ todoList[j].status = "Completed"
                       /\ todoList[j].todoItemId = newTask.todoItemId
              THEN /\ \E t \in Readings(clock) :
                        /\ newTask' = TodoItemModel(t)
                        /\ clock' = t
                   /\ newTaskAlias' = 0
              ELSE /\ newTaskAlias' = AliasAfterFilter({ j \in 1..Len(todoList) : todoList[j].status # "Completed" },
                                          newTaskAlias)
                   /\ UNCHANGED <<newTask, clock>>
         /\ UNCHANGED filtered

\* clearCompletedTasks(); yes is the answer confirm() returns.
ClearCompletedTasks(yes, ok) ==
  IF ~yes
    THEN /\ lastOp' = "clearCompletedTasks:declined"
         /\ UNCHANGED <<todoList, newTask, newTaskAlias, localStorage, clock, filtered>>
    ELSE /\ todoList' = ClearCompleted(todoList)
         /\ newTaskAlias' = AliasAfterFilter({ j \in 1..Len(todoList) : todoList[j].status # "Completed" },
                              newTaskAlias)
         /\ IF ok
              THEN /\ localStorage' = Item(JsonStringify(todoList'))
                   /\ lastOp' = "clearCompletedTasks"
              ELSE /\ lastOp' = "clearCompletedTasks:throw"
                   /\ UNCHANGED localStorage
         /\ UNCHANGED <<newTask, clock, filtered>>

\* A render calls getFilteredTasks() with the signals holding st, fs, so.
Render(st, fs, so) ==
  /\ filtered' = GetFilteredTasks(todoList, st, fs, so)
  /\ lastOp' = "getFilteredTasks"
  /\ UNCHANGED <<todoList, newTask, newTaskAlias, localStorage, clock>>

\* The page is loaded again: the component is constructed and ngOnInit()
\* reads the stored item.
NgOnInit ==
  /\ \E t \in Readings(clock) :
       /\ newTask' = TodoItemModel(t)
       /\ clock' = t
  /\ newTaskAlias' = 0
  /\ IF NgOnInitOutcome(localStorage) = "returned"
       THEN /\ todoList' = IF localStorage.present
                             THEN TasksWithDates(localStorage.json) ELSE <<>>
            /\ lastOp' = "ngOnInit"
       ELSE /\ todoList' = <<>>
            /\ lastOp' = "ngOnInit:throw"
  /\ filtered' = [ outcome |-> "none", tasks |-> <<>> ]
  /\ UNCHANGED localStorage

\* The ids a handler can be handed: those of the stored records, the
\* add-mode id 0, and an id that generateId cannot have produced.
MissingId == MaxTasks + 6 + MaxMs + 1
IdInputs == { todoList[i].todoItemId : i \in 1..Len(todoList) } \cup { 0, MissingId }

\* Every handler, with localStorage.setItem succeeding when ok.
Handlers(ok) ==
  \/ \E s \in Texts : SetText(s)
  \/ \E st \in Statuses : SetStatus(st)
  \/ AddTask(ok)
  \/ \E i \in 1..MaxTasks : EditTask(i)
  \/ UpdateTask(ok)
  \/ OnCancelEdit
  \/ \E id \in IdInputs, yes \in BOOLEAN : DeleteTask(id, yes, ok)
  \/ \E id \in IdInputs : ToggleComplete(id, ok)
  \/ \E yes \in BOOLEAN : ClearCompletedTasks(yes, ok)
  \/ NgOnInit

\* The handlers that change the store; the storage always accepts the write.
Next == Handlers(TRUE)

Spec == Init /\ [][Next]_vars

\* The same, with the renders that compute the displayed list.
NextView ==
  \/ Handlers(TRUE)
  \/ \E st \in SearchTexts, fs \in FilterStatuses, so \in SortOrders : Render(st, fs, so)

SpecView == Init /\ [][NextView]_vars

\* Another script of the origin, or the user in the browser's tools, writes
\* the item under localKeyName, or removes it.
StorageWrittenElsewhere(kind) ==
  /\ localStorage' = ForeignItem(kind)
  /\ lastOp' = "storage:written"
  /\ UNCHANGED <<todoList, newTask, newTaskAlias, clock, filtered>>

StorageCleared ==
  /\ localStorage' = NoItem
  /\ lastOp' = "storage:cleared"
  /\ UNCHANGED <<todoList, newTask, newTaskAlias, clock, filtered>>

\* The handlers, with a storage that is not the component's alone.
NextLoad ==
  \/ Handlers(TRUE)
  \/ \E kind \in ForeignBlobs : StorageWrittenElsewhere(kind)
  \/ StorageCleared

SpecLoad == Init /\ [][NextLoad]_vars

\* The handlers, with a storage that has room for the JSON of Quota records
\* only: setItem throws (QuotaExceededError) when handed a longer list, and
\* the exception ends the handler.
Fits(list) == Len(list) <= Quota

NextQuota ==
  \/ \E s \in Texts : SetText(s)
  \/ \E st \in Statuses : SetStatus(st)
  \/ \E ok \in BOOLEAN : AddTask(ok) /\ (ok <=> Fits(todoList'))
  \/ \E i \in 1..MaxTasks : EditTask(i)
  \/ \E ok \in BOOLEAN : UpdateTask(ok) /\ (ok <=> Fits(todoList'))
  \/ OnCancelEdit
  \/ \E id \in IdInputs, yes, ok \in BOOLEAN :
       DeleteTask(id, yes, ok) /\ (ok <=> Fits(todoList'))
  \/ \E id \in IdInputs, ok \in BOOLEAN :
       ToggleComplete(id, ok) /\ (ok <=> Fits(todoList'))
  \/ \E yes, ok \in BOOLEAN :
       ClearCompletedTasks(yes, ok) /\ (ok <=> Fits(todoList'))
  \/ NgOnInit

SpecQuota == Init /\ [][NextQuota]_vars

\* Clock readings that span what getDay() and getMilliseconds() can return:
\* the seven days from Thursday 1 January 1970 (Saturday is 6, Sunday 0),
\* each at millisecond 0 and at the last millisecond of a second.
IdInstants ==
  { d * MsPerDay + ms : d \in 0..6, ms \in { 0, MsPerSecond - 1 } }

\* Tasks are typed in, added and edited while the clock runs over IdInstants.
NextId ==
  \/ \E s \in Texts : SetText(s)
  \/ /\ Trim(newTask.todoItem) # <<>>
     /\ Len(todoList) < MaxTasks
     /\ \E t \in IdInstants : t >= clock /\ AddTaskAt(TRUE, t, t)
  \/ \E i \in 1..MaxTasks : EditTask(i)

SpecId == Init /\ [][NextId]_vars

\* A render calls getCompletedCount() / getPendingCount() for the statistics.
RenderCompletedCount ==
  /\ GetCompletedCount(todoList) \in 0..Len(todoList)
  /\ lastOp' = "getCompletedCount"
  /\ UNCHANGED <<todoList, newTask, newTaskAlias, localStorage, clock, filtered>>

RenderPendingCount ==
  /\ GetPendingCount(todoList) \in 0..Len(todoList)
  /\ lastOp' = "getPendingCount"
  /\ UNCHANGED <<todoList, newTask, newTaskAlias, localStorage, clock, filtered>>

\* The handlers, with the renders of the two counts.
NextCounts ==
  \/ Handlers(TRUE)
  \/ RenderCompletedCount
  \/ RenderPendingCount

SpecCounts == Init /\ [][NextCounts]_vars

\* The handlers, with every query the template renders.
NextAll ==
  \/ NextView
  \/ RenderCompletedCount
  \/ RenderPendingCount

SpecAll == Init /\ [][NextAll]_vars

\* ================================================================ claims
\* Vocabulary of the properties.
IsBlankText(s) == \A k \in 1..Len(s) : s[k] = " "
IdsOf(list) == [ k \in 1..Len(list) |-> list[k].todoItemId ]
DatesOf(list) == [ k \in 1..Len(list) |-> list[k].createdDate ]

\* a is b with some elements left out, the others in the order they have in b
RECURSIVE IsSubsequence(_, _)
IsSubsequence(a, b) ==
  IF a = <<>> THEN TRUE
  ELSE IF b = <<>> THEN FALSE
  ELSE IF Head(a) = Head(b) THEN IsSubsequence(Tail(a), Tail(b))
  ELSE IsSubsequence(a, Tail(b))

\* C1: in every reachable state the ids of the stored tasks are pairwise
\* distinct.
C1_UniqueIds ==
  \A i, j \in 1..Len(todoList) :
    i # j => todoList[i].todoItemId # todoList[j].todoItemId

\* C2: in every state between two handlers the stored item is the
\* serialization of the whole current list: ngOnInit run on it would yield
\* exactly todoList; and while nothing is stored the list is empty.
C2_PersistedIsCurrent ==
  IF localStorage.present
    THEN TasksWithDates(localStorage.json) = todoList
    ELSE todoList = <<>>

\* C2 witness: a toggle has just been persisted for a list of two tasks,
\* one of them created after the first second.
C2_Witness ==
  /\ lastOp = "toggleComplete"
  /\ Len(todoList) = 2
  /\ localStorage.present
  /\ \E i \in 1..2 : todoList[i].createdDate >= MsPerSecond /\ todoList[i].status = "Completed"

\* C3: the draft is never a stored record: what the user types or picks in
\* the form, and onCancelEdit, change neither the list nor the stored item.
C3_DraftEditsInvisible ==
  [][ lastOp' \in { "setText", "setStatus", "onCancelEdit" }
        => (todoList' = todoList /\ localStorage' = localStorage) ]_vars

\* C3 witness: after editTask the text of the draft was changed and the
\* record it was copied from still has its old text.
C3_Witness ==
  /\ lastOp = "setText"
  /\ newTask.todoItemId # 0
  /\ \E i \in 1..Len(todoList) :
       /\ todoList[i].todoItemId = newTask.todoItemId
       /\ todoList[i].todoItem # newTask.todoItem

\* C4: an addTask that passes validation appends one record carrying the
\* draft's text at the end, leaves the records before it as they were, and
\* leaves the draft a fresh empty record (id 0, no text, Pending).
C4_AddAppends ==
  [][ lastOp' = "addTask"
        => /\ Len(todoList') = Len(todoList) + 1
           /\ SubSeq(todoList', 1, Len(todoList)) = todoList
           /\ todoList'[Len(todoList')].todoItem = newTask.todoItem
           /\ newTask'.todoItemId = 0
           /\ newTask'.todoItem = <<>>
           /\ newTask'.status = "Pending" ]_vars

\* C4 witness: addTask has just appended a second record.
C4_Witness ==
  /\ lastOp = "addTask"
  /\ Len(todoList) = 2
  /\ newTask.todoItemId = 0

\* C5: addTask with a draft text that is empty or all spaces changes
\* neither the list, nor the draft, nor the stored item.
C5_AddBlankNoOp ==
  [][ (lastOp' \in { "addTask", "addTask:blank" } /\ IsBlankText(newTask.todoItem))
        => (todoList' = todoList /\ newTask' = newTask /\ localStorage' = localStorage) ]_vars

\* C5 witness: addTask returned on a draft of one space, and nothing has
\* been written to the storage yet.
C5_Witness ==
  /\ lastOp = "addTask:blank"
  /\ newTask.todoItem = <<" ">>
  /\ ~localStorage.present

\* C6: an updateTask that passes validation, for a draft whose id is in the
\* list, replaces one entry (one with that id) by the draft, that entry
\* keeps its createdDate, every other entry stays identical and the length
\* is unchanged.
C6_UpdateReplacesOneEntry ==
  [][ (lastOp' = "updateTask"
         /\ \E i \in 1..Len(todoList) : todoList[i].todoItemId = newTask.todoItemId)
        => /\ Len(todoList') = Len(todoList)
           /\ \E k \in 1..Len(todoList) :
                /\ todoList[k].todoItemId = newTask.todoItemId
                /\ todoList'[k] = newTask
                /\ todoList'[k].createdDate = todoList[k].createdDate
                /\ \A j \in 1..Len(todoList) : j # k => todoList'[j] = todoList[j] ]_vars

\* C7: a stored record keeps its createdDate for as long as it is in the
\* list: a removal leaves the dates of the survivors, in order, addTask
\* leaves the dates of the records before the new one, and every other
\* handler leaves the date at every position.
C7_CreatedDateImmutable ==
  [][ LET old == DatesOf(todoList)
          new == DatesOf(todoList')
      IN  IF lastOp' \in { "deleteTask", "clearCompletedTasks" }
            THEN IsSubsequence(new, old)
            ELSE IF lastOp' = "addTask"
              THEN Len(new) = Len(old) + 1 /\ SubSeq(new, 1, Len(old)) = old
              ELSE new = old ]_vars

\* C8: no stored task, in the list or in the stored item, has a text that
\* is empty or all spaces.
C8_NoBlankText ==
  /\ \A i \in 1..Len(todoList) : ~IsBlankText(todoList[i].todoItem)
  /\ localStorage.present =>
       \A i \in 1..Len(localStorage.json) : ~IsBlankText(localStorage.json[i].todoItem)

\* C8 witness: updateTask has just stored a text with spaces around a letter.
C8_Witness ==
  /\ lastOp = "updateTask"
  /\ \E i \in 1..Len(todoList) : todoList[i].todoItem = <<" ", "A", " ">>

\* C9: no handler reorders the list: across every step the ids of the
\* records are those of before in the same order with some left out, or
\* those of before followed by one new id; and a call of getFilteredTasks
\* leaves the list as it is.
C9_InsertionOrderKept ==
  [][ LET old == IdsOf(todoList)
          new == IdsOf(todoList')
      IN  /\ \/ IsSubsequence(new, old)
             \/ Len(new) = Len(old) + 1 /\ SubSeq(new, 1, Len(old)) = old
          /\ lastOp' = "getFilteredTasks" => todoList' = todoList ]_vars

\* C9 witness: getFilteredTasks has run on a list of two records with
\* different ids and different dates.
C9_Witness ==
  /\ lastOp = "getFilteredTasks"
  /\ filtered.outcome # "none"
  /\ Len(todoList) = 2
  /\ todoList[1].todoItemId # todoList[2].todoItemId
  /\ todoList[1].createdDate < todoList[2].createdDate

\* C10: editTask changes the draft only, which becomes equal, field for
\* field, to a record of the list; the list and the stored item stay.
C10_EditCopies ==
  [][ lastOp' = "editTask"
        => /\ \E i \in 1..Len(todoList) : newTask' = todoList[i]
           /\ todoList' = todoList
           /\ localStorage' = localStorage ]_vars

\* C10 witness: editTask has loaded a Completed record, created in the
\* second second, of a list of two.
C10_Witness ==
  /\ lastOp = "editTask"
  /\ Len(todoList) = 2
  /\ newTask.status = "Completed"
  /\ newTask.createdDate = MsPerSecond
  /\ \E i \in 1..2 : todoList[i] = newTask

\* C11: updateTask with a draft text that is empty or all spaces changes
\* neither the list, nor the stored item, nor the draft, which keeps its id.
C11_UpdateBlankNoOp ==
  [][ (lastOp' \in { "updateTask", "updateTask:blank" } /\ IsBlankText(newTask.todoItem))
        => (todoList' = todoList /\ newTask' = newTask /\ localStorage' = localStorage) ]_vars

\* C11 witness: updateTask returned on a draft of one space that edits a
\* stored task, whose text is still there.
C11_Witness ==
  /\ lastOp = "updateTask:blank"
  /\ newTask.todoItem = <<" ">>
  /\ \E i \in 1..Len(todoList) :
       todoList[i].todoItemId = newTask.todoItemId /\ todoList[i].todoItem = <<"a">>

\* C12: an updateTask that passes validation with a draft whose id is the
\* id of no stored task leaves the list as it is, writes it to the storage
\* and leaves the draft a fresh empty record (id 0, no text, Pending).
C12_UpdateMissingId ==
  [][ (lastOp' = "updateTask"
         /\ \A i \in 1..Len(todoList) : todoList[i].todoItemId # newTask.todoItemId)
        => /\ todoList' = todoList
           /\ localStorage' = Item(JsonStringify(todoList))
           /\ newTask'.todoItemId = 0
           /\ newTask'.todoItem = <<>>
           /\ newTask'.status = "Pending" ]_vars

\* C12 witness: updateTask has run on an empty list (no id can match) and
\* the storage now holds the empty list.
C12_Witness ==
  /\ lastOp = "updateTask"
  /\ todoList = <<>>
  /\ localStorage = Item(<<>>)
  /\ newTask.todoItemId = 0

\* C13: onCancelEdit leaves the draft a fresh empty record (id 0, no text,
\* Pending) and changes neither the list nor the stored item.
C13_CancelResets ==
  [][ lastOp' = "onCancelEdit"
        => /\ newTask'.todoItemId = 0
           /\ newTask'.todoItem = <<>>
           /\ newTask'.status = "Pending"
           /\ todoList' = todoList
           /\ localStorage' = localStorage ]_vars

\* C13 witness: onCancelEdit has run while two tasks are stored, one of
\* them Completed.
C13_Witness ==
  /\ lastOp = "onCancelEdit"
  /\ Len(todoList) = 2
  /\ \E i \in 1..2 : todoList[i].status = "Completed"
  /\ newTask.todoItemId = 0

\* C14: when confirm() answers no, deleteTask and clearCompletedTasks
\* change neither the list, nor the draft, nor the stored item.
C14_DeclinedNoOp ==
  [][ lastOp' \in { "deleteTask:declined", "clearCompletedTasks:declined" }
        => (todoList' = todoList /\ newTask' = newTask /\ localStorage' = localStorage) ]_vars

\* C14 witness: clearCompletedTasks was declined while a Completed task is
\* stored and the draft edits it.
C14_Witness ==
  /\ lastOp = "clearCompletedTasks:declined"
  /\ \E i \in 1..Len(todoList) :
       todoList[i].status = "Completed" /\ newTask = todoList[i]

\* d is the empty add-mode record, whenever it was constructed
IsEmptyDraft(d) == d.todoItemId = 0 /\ d.todoItem = <<>> /\ d.status = "Pending"
HasId(list, todoItemId) == \E k \in 1..Len(list) : list[k].todoItemId = todoItemId

\* C15: a confirmed deleteTask(id) leaves no record with that id, removes
\* at most one entry (the length goes down by 0 or 1) and keeps every other
\* entry, unchanged and in order.
C15_DeleteRemovesAtMostOne ==
  [][ \A id \in IdInputs :
        DeleteTask(id, TRUE, TRUE)
          => /\ ~HasId(todoList', id)
             /\ Len(todoList) - Len(todoList') \in { 0, 1 }
             /\ IsSubsequence(todoList', todoList) ]_vars

\* C16: a confirmed deleteTask(id), and a toggleComplete, for an id that no
\* stored task has leave the list exactly as it was.
C16_MissingIdNoOp ==
  [][ \A id \in IdInputs :
        (~HasId(todoList, id) /\ (DeleteTask(id, TRUE, TRUE) \/ ToggleComplete(id, TRUE)))
          => todoList' = todoList ]_vars

\* C16 witness: a confirmed deleteTask has run and the list is still full,
\* so the id it was given was the id of no task.
C16_Witness ==
  /\ lastOp = "deleteTask"
  /\ Len(todoList) = MaxTasks

\* C17: a confirmed deleteTask(id) leaves the draft the empty add-mode
\* record when the draft's id is id, and leaves the draft as it is when
\* the draft's id is another one.
C17_DeleteResetsMatchingDraft ==
  [][ \A id \in IdInputs :
        DeleteTask(id, TRUE, TRUE)
          => IF newTask.todoItemId = id
               THEN IsEmptyDraft(newTask')
               ELSE newTask' = newTask ]_vars

\* C17 witness: after a confirmed deleteTask the draft still edits the
\* task that is left, with a text not yet committed.
C17_Witness ==
  /\ lastOp = "deleteTask"
  /\ Len(todoList) = 1
  /\ newTask.todoItemId = todoList[1].todoItemId
  /\ newTask.todoItem # todoList[1].todoItem

\* C18: toggleComplete for the id of a stored task replaces one entry, a
\* task with that id, by the same task with status Pending if it was
\* Completed and Completed otherwise, leaves every other entry as it was,
\* and writes the resulting list to the storage.
C18_ToggleFlipsOne ==
  [][ \A id \in IdInputs :
        (HasId(todoList, id) /\ ToggleComplete(id, TRUE))
          => /\ Len(todoList') = Len(todoList)
             /\ \E k \in 1..Len(todoList) :
                  /\ todoList[k].todoItemId = id
                  /\ todoList'[k] =
                       [ todoList[k] EXCEPT
                           !.status = IF @ = "Completed" THEN "Pending" ELSE "Completed" ]
                  /\ \A j \in 1..Len(todoList) : j # k => todoList'[j] = todoList[j]
             /\ localStorage' = Item(JsonStringify(todoList')) ]_vars

\* C19: two toggleComplete calls in a row for a Pending task give back the
\* whole list as it was, and for an In Progress task leave that task Pending.
C19_ToggleTwice ==
  \A i \in 1..Len(todoList) :
    LET id == todoList[i].todoItemId
        twice == ToggleInList(ToggleInList(todoList, id), id)
    IN  /\ todoList[i].status = "Pending" => twice = todoList
        /\ todoList[i].status = "In Progress" => twice[i].status = "Pending"

\* C20: a confirmed clearCompletedTasks leaves exactly the tasks that were
\* not Completed, in their order, writes them to the storage, and the
\* completed count is 0 afterwards.
C20_ClearRemovesCompleted ==
  [][ lastOp' = "clearCompletedTasks"
        => /\ IsSubsequence(todoList', todoList)
           /\ Len(todoList') =
                Cardinality({ i \in 1..Len(todoList) : todoList[i].status # "Completed" })
           /\ \A i \in 1..Len(todoList') : todoList'[i].status # "Completed"
           /\ GetCompletedCount(todoList') = 0
           /\ localStorage' = Item(JsonStringify(todoList')) ]_vars

\* C20 witness: after a confirmed clearCompletedTasks an In Progress task
\* is what is left, in the list and in the storage.
C20_Witness ==
  /\ lastOp = "clearCompletedTasks"
  /\ Len(todoList) = 1
  /\ todoList[1].status = "In Progress"
  /\ Len(localStorage.json) = 1

\* item passes the status filter fs and the search for the text st
PassesFilters(item, st, fs) ==
  /\ fs # "All" => item.status = fs
  /\ ~IsBlankText(st) => Includes(ToLowerCase(item.todoItem), ToLowerCase(st))

\* C21: a call of getFilteredTasks with the signals holding st, fs and so
\* returns exactly the stored tasks that pass both filters: those whose
\* status is fs unless fs is "All", and whose text contains st whatever the
\* case unless st is blank.
C21_ProjectionFilters ==
  [][ \A st \in SearchTexts, fs \in FilterStatuses, so \in SortOrders :
        Render(st, fs, so)
          => /\ filtered'.outcome = "returned"
             /\ \A k \in 1..Len(filtered'.tasks) :
                  PassesFilters(filtered'.tasks[k], st, fs)
             /\ \A i \in 1..Len(todoList) :
                  PassesFilters(todoList[i], st, fs)
                    => \E k \in 1..Len(filtered'.tasks) : filtered'.tasks[k] = todoList[i]
             /\ Len(filtered'.tasks) =
                  Cardinality({ i \in 1..Len(todoList) : PassesFilters(todoList[i], st, fs) }) ]_vars

\* C22: a call of getFilteredTasks returns its tasks ordered by createdDate,
\* latest first when sortOrder holds "newest" and earliest first otherwise.
C22_ProjectionSorted ==
  [][ \A st \in SearchTexts, fs \in FilterStatuses, so \in SortOrders :
        Render(st, fs, so)
          => /\ filtered'.outcome = "returned"
             /\ \A i, j \in 1..Len(filtered'.tasks) :
                  i < j => IF so = "newest"
                             THEN filtered'.tasks[i].createdDate >= filtered'.tasks[j].createdDate
                             ELSE filtered'.tasks[i].createdDate <= filtered'.tasks[j].createdDate ]_vars

\* C23: every call of getFilteredTasks returns (it does not throw), leaves
\* the list, the draft and the stored item as they were, and a second call
\* with the same signals returns the same sequence.
C23_ProjectionPure ==
  [][ \A st \in SearchTexts, fs \in FilterStatuses, so \in SortOrders :
        Render(st, fs, so)
          => /\ filtered'.outcome = "returned"
             /\ todoList' = todoList
             /\ newTask' = newTask
             /\ localStorage' = localStorage
             /\ GetFilteredTasks(todoList', st, fs, so) = filtered' ]_vars

\* the number of stored tasks whose status is st
CountWithStatus(list, st) == Cardinality({ i \in 1..Len(list) : list[i].status = st })

\* C24: getCompletedCount is the number of Completed tasks and
\* getPendingCount the number of Pending tasks; In Progress tasks are in
\* neither, so the two add up to at most the number of tasks, and to exactly
\* that number when no task is In Progress; the calls change nothing.
C24_Counts ==
  [][ lastOp' \in { "getCompletedCount", "getPendingCount" }
        => /\ GetCompletedCount(todoList') = CountWithStatus(todoList', "Completed")
           /\ GetPendingCount(todoList') = CountWithStatus(todoList', "Pending")
           /\ GetCompletedCount(todoList') + GetPendingCount(todoList') <= Len(todoList')
           /\ (GetCompletedCount(todoList') + GetPendingCount(todoList') = Len(todoList'))
                <=> CountWithStatus(todoList', "In Progress") = 0
           /\ todoList' = todoList
           /\ newTask' = newTask
           /\ localStorage' = localStorage ]_vars

\* C24 witness: the pending count was taken of a list of one In Progress
\* and one Completed task: it is 0 and the two counts add up to 1 of 2.
C24_Witness ==
  /\ lastOp = "getPendingCount"
  /\ Len(todoList) = 2
  /\ CountWithStatus(todoList, "In Progress") = 1
  /\ CountWithStatus(todoList, "Completed") = 1
  /\ GetPendingCount(todoList) = 0
  /\ GetCompletedCount(todoList) = 1

\* C25: whatever list the handlers have produced, writing it to the storage
\* (saveToLocalStorage) and reading it back (ngOnInit) gives the same
\* records in the same order: same id, text and status, and a createdDate
\* that is the same instant.
C25_RoundTrip ==
  LET saved == Item(JsonStringify(todoList))
      loaded == TasksWithDates(saved.json)
  IN  /\ Len(loaded) = Len(todoList)
      /\ \A i \in 1..Len(todoList) :
           /\ loaded[i].todoItemId = todoList[i].todoItemId
           /\ loaded[i].todoItem = todoList[i].todoItem
           /\ loaded[i].status = todoList[i].status
           /\ loaded[i].createdDate = todoList[i].createdDate

\* C25 witness: ngOnInit has loaded two tasks, one created at a
\* millisecond that is not a whole second and a later one, with texts and
\* statuses that differ.
C25_Witness ==
  /\ lastOp = "ngOnInit"
  /\ Len(todoList) = 2
  /\ GetMilliseconds(todoList[1].createdDate) # 0
  /\ todoList[2].createdDate >= MsPerSecond
  /\ todoList[1].todoItem # todoList[2].todoItem
  /\ todoList[1].status # todoList[2].status

\* C26: ngOnInit on a storage that holds no item, or an item that is not
\* the JSON of an array of tasks, returns normally and leaves an empty list
\* and the empty add-mode draft.
C26_LoadRecovers ==
  [][ (NgOnInit /\ (~localStorage.present \/ localStorage.holds # "array"))
        => /\ lastOp' = "ngOnInit"
           /\ todoList' = <<>>
           /\ IsEmptyDraft(newTask') ]_vars

\* how a handler that writes to the storage can end
WriteFailed ==
  { "addTask:throw", "updateTask:throw", "deleteTask:throw",
    "toggleComplete:throw", "clearCompletedTasks:throw" }
WriteDone ==
  { "addTask", "updateTask", "deleteTask", "toggleComplete", "clearCompletedTasks" }

\* C27: a handler whose write to the storage fails leaves the stored item
\* as it was and keeps the change it made to the list (the new record, the
\* replaced record, the removals, the flipped statuses); and every handler
\* whose write succeeds leaves the stored item equal to the serialization
\* of the list as it is then.
C27_WriteFailureKeepsMutation ==
  [][ /\ lastOp' \in WriteFailed => localStorage' = localStorage
      /\ lastOp' = "addTask:throw"
           => /\ Len(todoList') = Len(todoList) + 1
              /\ SubSeq(todoList', 1, Len(todoList)) = todoList
              /\ todoList'[Len(todoList')].todoItem = newTask.todoItem
      /\ lastOp' = "updateTask:throw"
           => /\ Len(todoList') = Len(todoList)
              /\ \A i \in 1..Len(todoList) :
                   todoList'[i] = IF todoList[i].todoItemId = newTask.todoItemId
                                    THEN newTask ELSE todoList[i]
      /\ lastOp' = "deleteTask:throw" => IsSubsequence(todoList', todoList)
      /\ lastOp' = "clearCompletedTasks:throw"
           => /\ IsSubsequence(todoList', todoList)
              /\ CountWithStatus(todoList', "Completed") = 0
              /\ Len(todoList') = Len(todoList) - CountWithStatus(todoList, "Completed")
      /\ lastOp' = "toggleComplete:throw"
           => /\ Len(todoList') = Len(todoList)
              /\ \A i \in 1..Len(todoList) :
                   \/ todoList'[i] = todoList[i]
                   \/ todoList'[i] = [ todoList[i] EXCEPT
                        !.status = IF @ = "Completed" THEN "Pending" ELSE "Completed" ]
      /\ lastOp' \in WriteDone => localStorage' = Item(JsonStringify(todoList')) ]_vars

\* C27 witness: the write of updateTask has failed: the list of two holds
\* the draft in place of the edited record, and the stored item still
\* holds one record, with the text it had before.
C27_Witness ==
  /\ lastOp = "updateTask:throw"
  /\ Len(todoList) = 2
  /\ \E i \in 1..2 : todoList[i] = newTask
  /\ localStorage.present
  /\ Len(localStorage.json) = 1
  /\ \A i \in 1..2 : todoList[i].todoItem # localStorage.json[1].todoItem

\* C28: the record that addTask appends has status Pending, whatever the
\* draft held when addTask was called.
C28_AddedIsPending ==
  [][ lastOp' = "addTask"
        => todoList'[Len(todoList')].status = "Pending" ]_vars

\* C29: in every state the draft is in add mode (its id is 0) or its id is
\* the id of a stored task.
C29_DraftRefersToTask ==
  newTask.todoItemId # 0 => HasId(todoList, newTask.todoItemId)

\* C30: toggleComplete leaves the draft as it is, and an updateTask that
\* passes validation gives every stored task with the draft's id the
\* status the draft holds: a toggle made between editTask and updateTask
\* is overwritten by the status editTask copied.
C30_UpdateOverwritesToggle ==
  [][ /\ lastOp' = "toggleComplete" => newTask' = newTask
      /\ lastOp' = "updateTask"
           => \A k \in 1..Len(todoList) :
                todoList[k].todoItemId = newTask.todoItemId
                  => (Len(todoList') = Len(todoList)
                      /\ todoList'[k].status = newTask.status) ]_vars

\* C30 witness: toggleComplete has run on the task that the draft edits:
\* the stored task is Completed now, the draft still holds the Pending
\* that editTask copied and a text that passes updateTask's validation.
C30_Witness ==
  /\ lastOp = "toggleComplete"
  /\ newTask.status = "Pending"
  /\ ~IsBlankText(newTask.todoItem)
  /\ \E k \in 1..Len(todoList) :
       /\ todoList[k].todoItemId = newTask.todoItemId
       /\ todoList[k].todoItem = newTask.todoItem
       /\ todoList[k].createdDate = newTask.createdDate
       /\ todoList[k].status = "Completed"

\* C31: when the write to the storage throws in addTask, the new record is
\* in the list and the draft is not reset: it is that record, with the
\* generated id (not 0) and the text typed; when it throws in updateTask,
\* the records with the draft's id are replaced and the draft is as it was.
C31_WriteFailureLeavesDraft ==
  [][ /\ lastOp' = "addTask:throw"
           => /\ Len(todoList') = Len(todoList) + 1
              /\ todoList'[Len(todoList')] = newTask'
              /\ newTask'.todoItemId # 0
              /\ newTask'.todoItem = newTask.todoItem
              /\ newTask'.status = newTask.status
      /\ lastOp' = "updateTask:throw"
           => /\ newTask' = newTask
              /\ \A i \in 1..Len(todoList) :
                   todoList[i].todoItemId = newTask.todoItemId => todoList'[i] = newTask ]_vars

\* C31 witness: the write of addTask has failed for the second record: it
\* is in the list, the draft holds its id and text, and the stored item
\* still holds the first record only.
C31_Witness ==
  /\ lastOp = "addTask:throw"
  /\ Len(todoList) = 2
  /\ todoList[2] = newTask
  /\ newTask.todoItemId # 0
  /\ ~IsBlankText(newTask.todoItem)
  /\ localStorage.present
  /\ Len(localStorage.json) = 1

\* C32: the id that addTask gives the new record is at least the number of
\* records before the call plus 1 and at most that number plus 1006, so it
\* is not 0; and the draft that editTask makes of a stored record has an id
\* that is not 0.
C32_IdRange ==
  [][ /\ lastOp' = "addTask"
           => LET id == todoList'[Len(todoList')].todoItemId
              IN  /\ id >= Len(todoList) + 1
                  /\ id <= Len(todoList) + 1006
                  /\ id # 0
      /\ lastOp' = "editTask" => newTask'.todoItemId # 0 ]_vars

\* C32 witness: the first record was added on a Saturday at millisecond
\* 999 (id 0 + 1006) and the second on a Sunday at millisecond 0 (id 1 + 1),
\* and editTask has loaded the second.
C32_Witness ==
  /\ lastOp = "editTask"
  /\ Len(todoList) = 2
  /\ todoList[1].todoItemId = 1006
  /\ todoList[2].todoItemId = 2
  /\ newTask.todoItemId = 2

\* the handlers after which the draft may differ from what it was: those
\* that replace it, the two form fields, and the construction of the component
ChangesDraft ==
  { "editTask", "onCancelEdit", "addTask", "updateTask", "deleteTask",
    "setText", "setStatus", "ngOnInit" }

\* C33: the draft is replaced only by editTask, onCancelEdit, an addTask
\* or updateTask that passes validation, and a confirmed deleteTask of the
\* draft's id (and written by the form's fields and at construction);
\* toggleComplete, clearCompletedTasks, a confirmed deleteTask of another
\* id, getFilteredTasks and the two counts leave it as it was.
C33_DraftFrame ==
  [][ /\ newTask' # newTask => lastOp' \in ChangesDraft
      /\ lastOp' = "deleteTask"
           => \A id \in IdInputs :
                (DeleteTask(id, TRUE, TRUE) /\ id # newTask.todoItemId)
                  => newTask' = newTask ]_vars

\* C33 witness: a confirmed clearCompletedTasks has removed the Completed
\* task that the draft edits, another task is left, and the draft still
\* holds the removed task's id and status.
C33_Witness ==
  /\ lastOp = "clearCompletedTasks"
  /\ newTask.todoItemId # 0
  /\ newTask.status = "Completed"
  /\ ~HasId(todoList, newTask.todoItemId)
  /\ Len(todoList) = 1

\* the records of seq that were created at the instant d, in their order
CreatedAt(seq, d) == SelectSeq(seq, LAMBDA item : item.createdDate = d)

\* C34: a call of getFilteredTasks returns the tasks that have the same
\* createdDate in the order they have in the list, whatever sortOrder holds.
C34_TiesKeepOrder ==
  [][ \A st \in SearchTexts, fs \in FilterStatuses, so \in SortOrders :
        Render(st, fs, so)
          => /\ filtered'.outcome = "returned"
             /\ \A d \in { todoList[i].createdDate : i \in 1..Len(todoList) } :
                  IsSubsequence(CreatedAt(filtered'.tasks, d), CreatedAt(todoList, d)) ]_vars

\* how many times the record r occurs in seq
Occurrences(seq, r) == Cardinality({ k \in 1..Len(seq) : seq[k] = r })

\* C36: a call of getFilteredTasks returns records of the list only, none
\* more often than it is in the list, so at most as many as the list holds;
\* with filterStatus "All" and a blank searchText it returns each record
\* exactly as often as the list holds it (a permutation of the list).
C36_ProjectionSelects ==
  [][ \A st \in SearchTexts, fs \in FilterStatuses, so \in SortOrders :
        Render(st, fs, so)
          => /\ filtered'.outcome = "returned"
             /\ \A k \in 1..Len(filtered'.tasks) :
                  /\ Occurrences(todoList, filtered'.tasks[k]) >= 1
                  /\ Occurrences(filtered'.tasks, filtered'.tasks[k])
                       <= Occurrences(todoList, filtered'.tasks[k])
             /\ Len(filtered'.tasks) <= Len(todoList)
             /\ (fs = "All" /\ IsBlankText(st))
                  => /\ Len(filtered'.tasks) = Len(todoList)
                     /\ \A i \in 1..Len(todoList) :
                          Occurrences(filtered'.tasks, todoList[i])
                            = Occurrences(todoList, todoList[i]) ]_vars

\* C35: in every state every stored task has one of the three statuses of
\* the form's select, so the numbers of Pending, In Progress and Completed
\* tasks add up to the length of the list.
C35_StatusesClosed ==
  /\ \A i \in 1..Len(todoList) : todoList[i].status \in Statuses
  /\ CountWithStatus(todoList, "Pending") + CountWithStatus(todoList, "In Progress")
       + CountWithStatus(todoList, "Completed") = Len(todoList)

\* C35 witness: updateTask has stored a status picked in the form: the
\* list holds an In Progress task and a Completed one.
C35_Witness ==
  /\ lastOp = "updateTask"
  /\ Len(todoList) = 2
  /\ todoList[1].status = "In Progress"
  /\ todoList[2].status = "Completed"

\* C37: the text of every stored task is trimmed: it neither begins nor
\* ends with a space.
C37_StoredTextTrimmed ==
  \A i \in 1..Len(todoList) : Trim(todoList[i].todoItem) = todoList[i].todoItem
====
